---- MODULE Spec2Model ----
(***************************************************************************)
(* Model of src/src/agent_lab/tools.py: the Python interpreter tool        *)
(* (create_python_interpreter_tool / _execute_agent_code), the watsonx     *)
(* utility-agent tool adapter (create_utility_agent_tool / run_tool), the  *)
(* custom tool compiler (compile_custom_tool / call_tool) and the toolkit  *)
(* assembler (assemble_toolkit).                                           *)
(*                                                                         *)
(* Text is modelled as a sequence of tokens; a token is either a literal   *)
(* fragment of the source's string constants ("base64image", ":",          *)
(* "IMAGE(") or an opaque piece of user text.                              *)
(***************************************************************************)
EXTENDS Integers, Sequences, FiniteSets, TLC

VARIABLES
    sys_stdout,       \* sys.stdout: the object currently installed
    builtins_import,  \* builtins.__import__: 0 = the interpreter's own, n = n nested patched_import
    interp,           \* PythonInterpreter tools created by create_python_interpreter_tool
    exec_last,        \* record of the most recent _execute_agent_code call
    toolkit,          \* list returned by assemble_toolkit
    toolkit_cfg,      \* the keyword arguments of that call
    custom,           \* tool returned by a direct compile_custom_tool call
    invoke_last,      \* record of the most recent call of a remote or custom tool's func
    conc,             \* two _execute_agent_code calls running in two threads, step by step
    last_namespace    \* the `_` binding in the namespace dict of the most recent call

vars == <<sys_stdout, builtins_import, interp, exec_last, toolkit, toolkit_cfg,
          custom, invoke_last, conc, last_namespace>>

----------------------------------------------------------------------------
(* Bounds *)

MaxStmts == 2      \* statements in one sandbox code string
MaxInterp == 2     \* interpreter tools created directly
MaxCustom == 2     \* entries of custom_tools
MaxSrcStmts == 2   \* top-level statements of a custom tool source
MaxArg == 3        \* integer keyword arguments range over 0..MaxArg
MaxConcStmts == 1  \* statements in the code of a call that runs beside another

----------------------------------------------------------------------------
(* Text helpers: str.startswith, str.split(sep, maxsplit), `in` *)

NL == "\\n"

StartsWith(t, tok) == Len(t) >= 1 /\ t[1] = tok

FirstIdx(t, tok) ==
    IF \E i \in 1..Len(t) : t[i] = tok
    THEN CHOOSE i \in 1..Len(t) : t[i] = tok /\ \A j \in 1..(i - 1) : t[j] # tok
    ELSE 0

RECURSIVE Split(_, _, _)
Split(t, sep, maxsplit) ==
    IF maxsplit = 0 \/ FirstIdx(t, sep) = 0
    THEN <<t>>
    ELSE <<SubSeq(t, 1, FirstIdx(t, sep) - 1)>>
         \o Split(SubSeq(t, FirstIdx(t, sep) + 1, Len(t)), sep, maxsplit - 1)

Contains(t, sub) ==
    \E i \in 1..(Len(t) - Len(sub) + 1) : SubSeq(t, i, i + Len(sub) - 1) = sub

----------------------------------------------------------------------------
(* PythonExecutionResult *)

NoResult == [set |-> FALSE, output |-> <<>>, image_url |-> ""]

MkResult(output, image_url) == [set |-> TRUE, output |-> output, image_url |-> image_url]

\* as_text: image_url is falsy when None or "" (both modelled as "")
as_text(r) ==
    IF r.image_url # ""
    THEN <<"Result of executing generated Python code is an image:", NL, NL,
           "IMAGE(", r.image_url, ")">>
    ELSE r.output

----------------------------------------------------------------------------
(* Exceptions *)

\* Classes caught by `except Exception`
ExceptionClasses == {"SyntaxError", "ValueError", "KeyError", "ZeroDivisionError",
                     "NameError", "TypeError", "OSError"}
\* Classes deriving from BaseException only
BaseOnlyClasses == {"SystemExit", "KeyboardInterrupt"}

NoExc == [raised |-> FALSE, cls |-> "", msg |-> <<>>]
Exc(cls, msg) == [raised |-> TRUE, cls |-> cls, msg |-> msg]

\* str(exc): the single argument, except KeyError which shows its repr
StrExc(e) == IF e.cls = "KeyError" THEN <<"'">> \o e.msg \o <<"'">> ELSE e.msg

ErrorPrefix == <<"Error while executing Python code:", NL, NL>>

----------------------------------------------------------------------------
(* The sandbox's input language: a code string is abstracted to whether it *)
(* parses and compiles, and to the sequence of its top-level effects.       *)

Stmt(op, text, arg) == [op |-> op, text |-> text, arg |-> arg]

PrintTexts == { <<"hello">>, <<"base64image">>,
                <<"base64image", ":", "pic", ":", "AAAA">> }

\* What base64.b64encode(image_file.read()).decode("utf-8") can be taken to be
ShowPayloads == { <<"iVBOR">>, <<"iV", ":", "OR">> }

SandboxStmts ==
    { Stmt("print", t, "") : t \in PrintTexts }                    \* print(t)
    \cup { Stmt("raise", <<"boom">>, c) :                          \* raise c("boom")
             c \in {"ValueError", "KeyError", "SystemExit"} }
    \cup { Stmt("show", b, "plt-uuid.png") : b \in ShowPayloads }  \* import matplotlib.pyplot as plt; plt.show()
    \cup { Stmt("bind", <<"answer">>, u) : u \in {"", "http://img"} } \* _ = PythonExecutionResult(...)
    \cup { Stmt("set_stdout", <<>>, "devnull") }                   \* sys.stdout = open(os.devnull, "w")

BodiesUpTo(n) == UNION { [1..k -> SandboxStmts] : k \in 0..n }

SandboxCodes ==
    { [syntax |-> "ok", body |-> b] : b \in BodiesUpTo(MaxStmts) }
    \cup { [syntax |-> s, body |-> <<>>] : s \in {"parse_error", "compile_error"} }

\* Outcomes of the image upload collaborator
UploadOutcomes == { [ok |-> FALSE, uri |-> ""], [ok |-> TRUE, uri |-> ""],
                    [ok |-> TRUE, uri |-> "https://cdn/img1"] }

\* Outcomes of open(picture_name, "rb") / image_file.read() in pyplot_show
ReadOutcomes == {"ok", "OSError"}

\* The collaborators' outcomes that a call of `code` can meet: the file is
\* read only by pyplot_show, and the upload is called only for a buffer that
\* starts with the sentinel prefix
CallsShow(code) == \E k \in 1..Len(code.body) : code.body[k].op = "show"

PrintsSentinelPrefix(code) ==
    \E k \in 1..Len(code.body) :
        code.body[k].op = "print" /\ code.body[k].text[1] = "base64image"

ReadOutcomesFor(code) == IF CallsShow(code) THEN ReadOutcomes ELSE {"ok"}

UploadOutcomesFor(code) ==
    IF CallsShow(code) \/ PrintsSentinelPrefix(code)
    THEN UploadOutcomes ELSE { [ok |-> FALSE, uri |-> ""] }

\* Objects sys.stdout can be bound to before a call
HostChannels == {"console", "hostlog"}

----------------------------------------------------------------------------
(* create_python_interpreter_tool and its closures *)

\* original_import = __import__ : whatever builtins.__import__ is at creation
create_python_interpreter_tool(current_import) ==
    [kind |-> "python", name |-> "PythonInterpreter", original_import |-> current_import]

\* patched_import delegates to the tool's original_import: one level deeper
patched_import(tool) == tool.original_import + 1

\* Variant: each call wraps whatever import function is installed at that time
init_imports_wrapping_current(tool, fr) == [fr EXCEPT !.import = fr.import + 1]

\* init_imports: builtins.__import__ = patched_import
init_imports(tool, fr) == [fr EXCEPT !.import = patched_import(tool)]

\* print(...): appends the text and a newline to whatever sys.stdout is now
print(fr, text) ==
    IF fr.stdout = "StringIO" THEN [fr EXCEPT !.buf = @ \o text \o <<NL>>] ELSE fr

\* The line pyplot_show prints for a picture
Sentinel(picture_name, encoded_string) ==
    <<"base64image", ":", picture_name, ":">> \o encoded_string

\* pyplot_show: plt.savefig(picture_name) creates the file; inside the `with`
\* the file is read and encoded and then removed, so a failing read leaves it;
\* then the sentinel line is printed
pyplot_show(fr, picture_name, encoded_string) ==
    LET saved == [fr EXCEPT !.files = Append(@, [name |-> picture_name, exists |-> TRUE])]
        n == Len(saved.files)
    IN  IF fr.read # "ok"
        THEN [saved EXCEPT !.exc = Exc("OSError", <<"read failed">>)]
        ELSE print([saved EXCEPT !.files[n].exists = FALSE,
                                 !.shows = Append(@, [name |-> picture_name,
                                                      payload |-> encoded_string,
                                                      captured |-> fr.stdout = "StringIO"])],
                   Sentinel(picture_name, encoded_string))

\* One top-level statement of the agent's code
RunStmt(fr, s) ==
    CASE s.op = "print"      -> print(fr, s.text)
      [] s.op = "raise"      -> [fr EXCEPT !.exc = Exc(s.arg, s.text)]
      [] s.op = "show"       -> pyplot_show(fr, s.arg, s.text)
      [] s.op = "bind"       -> [fr EXCEPT !.under = MkResult(s.text, s.arg), !.bound = TRUE]
      [] s.op = "set_stdout" -> [fr EXCEPT !.stdout = s.arg]

\* exec(compiled_code, namespace): statements in order until one raises
RECURSIVE RunBody(_, _, _)
RunBody(fr, body, i) ==
    IF i > Len(body) \/ fr.exc.raised THEN fr
    ELSE RunBody(RunStmt(fr, body[i]), body, i + 1)

\* ast.parse / compile of "init_imports()\n\n" + code
ParseCompile(code) ==
    CASE code.syntax = "parse_error"   -> Exc("SyntaxError", <<"invalid syntax">>)
      [] code.syntax = "compile_error" -> Exc("SyntaxError", <<"'return' outside function">>)
      [] OTHER                         -> NoExc

\* Variant: one namespace dict kept by the tool and used by every call
kept_namespace(previous) == previous

\* namespace = {"init_imports": ..., "PythonExecutionResult": ...} (line 99):
\* a new dict for each call, in which `_` is not bound, whatever the
\* previous call's dict held
new_namespace(previous) == NoResult

\* The try block of _execute_agent_code (lines 96-101)
TryBlock(tool, code, stdout0, import0, read, previous) ==
    LET fr0 == [stdout |-> stdout0, buf |-> <<>>, under |-> new_namespace(previous),
                bound |-> FALSE,
                exc |-> ParseCompile(code), import |-> import0,
                read |-> read, files |-> <<>>, shows |-> <<>>]
    IN  IF fr0.exc.raised THEN fr0
        ELSE RunBody(init_imports(tool, [fr0 EXCEPT !.stdout = "StringIO"]), code.body, 1)

\* `except Exception` (line 102)
CaughtByHandler(cls) == cls \in ExceptionClasses

\* Variant: the restore placed after exec() instead of in a finally clause
RestoreStdoutAfterExecOnly(old_stdout, fr) ==
    IF fr.exc.raised THEN fr.stdout ELSE old_stdout

\* `finally: sys.stdout = old_stdout` (lines 104-105)
RestoreStdout(old_stdout, fr) == old_stdout

\* Lines 107-117: choose the result after a run that did not raise
PostProcess(fr, upload) ==
    LET value == fr.buf
        parts == Split(value, ":", 2)
    IN  IF StartsWith(value, "base64image")
        THEN IF Len(parts) # 3
             THEN [outcome |-> "raised", text |-> <<>>, origin |-> "unpack",
                   exc |-> Exc("ValueError", <<"not enough values to unpack">>),
                   uploads |-> <<>>]
             ELSE LET call == [blob |-> parts[3], name |-> parts[2]]
                  IN  IF ~upload.ok
                      THEN [outcome |-> "raised", text |-> <<>>, origin |-> "upload",
                            exc |-> Exc("HTTPError", <<"upload failed">>),
                            uploads |-> <<call>>]
                      ELSE [outcome |-> "returned", origin |-> "",
                            text |-> as_text(MkResult(<<>>, upload.uri)),
                            exc |-> NoExc, uploads |-> <<call>>]
        ELSE [outcome |-> "returned", origin |-> "", exc |-> NoExc, uploads |-> <<>>,
              text |-> IF fr.under.set THEN as_text(fr.under) ELSE value]

\* _execute_agent_code(code): the outcome and the process state it leaves
execute_agent_code(tool, code, upload, read, stdout0, import0, previous) ==
    LET fr == TryBlock(tool, code, stdout0, import0, read, previous)
        res == IF fr.exc.raised
               THEN IF CaughtByHandler(fr.exc.cls)
                    THEN [outcome |-> "returned", origin |-> "", exc |-> NoExc,
                          uploads |-> <<>>, text |-> ErrorPrefix \o StrExc(fr.exc)]
                    ELSE [outcome |-> "raised", origin |-> "user", exc |-> fr.exc,
                          uploads |-> <<>>, text |-> <<>>]
               ELSE PostProcess(fr, upload)
    IN  [res |-> res, fr |-> fr,
         stdout |-> RestoreStdout(stdout0, fr), import |-> fr.import]

NoExec == [op |-> "none"]

\* What is remembered of a call: its inputs, its outcome, what the code did,
\* what sys.stdout was bound to when the try block was left, the sentinel
\* lines pyplot_show printed and the files it saved
ExecRecord(tool, code, upload, stdout0, import0, previous, r) ==
    [op |-> "execute", tool |-> tool, syntax |-> code.syntax, stdout_before |-> stdout0,
     outcome |-> r.res.outcome, text |-> r.res.text, origin |-> r.res.origin,
     exc |-> r.res.exc, code_exc |-> r.fr.exc, value |-> r.fr.buf,
     under |-> r.fr.under, uploads |-> r.res.uploads,
     stdout_at_exit |-> r.fr.stdout,
     upload |-> upload, import_before |-> import0,
     shows |-> r.fr.shows, files |-> r.fr.files,
     bound |-> r.fr.bound, namespace_before |-> previous]

----------------------------------------------------------------------------
(* Python values handled by custom and remote tools *)

PyNone == [t |-> "None", i |-> 0, s |-> ""]
PyInt(n) == [t |-> "int", i |-> n, s |-> ""]
PyStr(str) == [t |-> "str", i |-> 0, s |-> str]
\* the function object created by the def statement at position idx
PyFunc(idx, fn) == [t |-> "function", i |-> idx, s |-> fn]

Digits == <<"0", "1", "2", "3", "4", "5", "6", "7", "8", "9">>

RECURSIVE NatToStr(_)
NatToStr(n) ==
    IF n < 10 THEN Digits[n + 1] ELSE NatToStr(n \div 10) \o Digits[(n % 10) + 1]

\* str(v)
ToText(v) ==
    CASE v.t = "int"  -> IF v.i < 0 THEN "-" \o NatToStr(0 - v.i) ELSE NatToStr(v.i)
      [] v.t = "str"  -> v.s
      [] v.t = "None" -> "None"
      [] OTHER        -> "<function>"

----------------------------------------------------------------------------
(* CustomToolConfig.code: a source is abstracted to whether it parses and  *)
(* to its top-level statements, each `def name(x, y): <fn>` or             *)
(* `name = None`.                                                           *)

FnBodies == {"add", "sub", "div", "getk", "getx"}   \* x + y, x - y, x // y, k, x
FnNames == {"f", "g"}

SrcStmts ==
    { [op |-> "def", name |-> n, fn |-> b] : n \in FnNames, b \in FnBodies }
    \cup { [op |-> "assign", name |-> "f", fn |-> ""] }

Sources ==
    { [syntax |-> "ok", body |-> b] :
        b \in UNION { [1..k -> SrcStmts] : k \in 0..MaxSrcStmts } }
    \cup { [syntax |-> "parse_error", body |-> <<>>] }

Unbound == [t |-> "unbound", i |-> 0, s |-> ""]

\* CustomToolConfig.params: None or a mapping binding the name k, or k and x
ParamNames == {"k", "x"}
NoParams == [k |-> Unbound, x |-> Unbound, set |-> FALSE]
StaticParams == { NoParams,
                  [k |-> PyInt(7), x |-> Unbound, set |-> TRUE],
                  [k |-> PyInt(7), x |-> PyInt(9), set |-> TRUE] }

CustomToolConfigs ==
    { [name |-> "A", code |-> c, params |-> p] : c \in Sources, p \in StaticParams }

IntKwargs == [ {"x", "y"} -> 0..MaxArg ]

\* Outcome of a tool function: what it returned or raised, the function object
\* it called, the remote run calls it made and what the remote run answered
NoRun == [ok |-> FALSE, has_output |-> FALSE, output |-> ""]
Returned(v, called) ==
    [outcome |-> "returned", value |-> v, exc |-> NoExc, called |-> called,
     run_calls |-> <<>>, run |-> NoRun, source_runs |-> 0]
Raised(cls, msg, called) ==
    [outcome |-> "raised", value |-> PyNone, exc |-> Exc(cls, msg), called |-> called,
     run_calls |-> <<>>, run |-> NoRun, source_runs |-> 0]

\* custom_tool_functions: positions of the top-level FunctionDef nodes
custom_tool_functions(code) ==
    { i \in 1..Len(code.body) : code.body[i].op = "def" }

Min(S) == CHOOSE m \in S : \A n \in S : m <= n
Max(S) == CHOOSE m \in S : \A n \in S : m >= n

\* Variant: the name of the last function definition
function_name_of_last(code) == code.body[Max(custom_tool_functions(code))].name

\* function_name = custom_tool_functions[0].name
function_name(code) == code.body[Min(custom_tool_functions(code))].name

\* namespace = {}; namespace.update(tool_config.params)
InitialNamespace(params) ==
    [n \in FnNames \cup ParamNames |->
        IF n \in ParamNames /\ params.set THEN params[n] ELSE Unbound]

\* exec(compiled_code, namespace): every top-level statement binds its name
RECURSIVE ExecSource(_, _, _)
ExecSource(ns, body, i) ==
    IF i > Len(body) THEN ns
    ELSE ExecSource(
            [ns EXCEPT ![body[i].name] =
                IF body[i].op = "def" THEN PyFunc(i, body[i].fn) ELSE PyNone],
            body, i + 1)

\* Variant: a name bound in the namespace hides the keyword argument
LookupNamespaceFirst(name, kwargs, globals) ==
    IF name \in DOMAIN globals /\ globals[name] # Unbound THEN globals[name]
    ELSE IF name \in DOMAIN kwargs THEN PyInt(kwargs[name]) ELSE Unbound

\* A name read in the function body: the parameter bound by **kwargs is a
\* local and is found first, any other name is looked up in the globals
Lookup(name, kwargs, globals) ==
    IF name \in DOMAIN kwargs THEN PyInt(kwargs[name]) ELSE globals[name]

\* Calling a function object with **kwargs; its globals are `globals`
ApplyFunction(f, kwargs, globals) ==
    LET x == Lookup("x", kwargs, globals).i
        y == Lookup("y", kwargs, globals).i
        k == Lookup("k", kwargs, globals)
    IN  CASE f.s = "add"  -> Returned(PyInt(x + y), f)
          [] f.s = "sub"  -> Returned(PyInt(x - y), f)
          [] f.s = "div"  -> IF y = 0
                             THEN Raised("ZeroDivisionError",
                                         <<"integer division or modulo by zero">>, f)
                             ELSE Returned(PyInt(x \div y), f)
          [] f.s = "getk" -> IF k = Unbound
                             THEN Raised("NameError", <<"name 'k' is not defined">>, f)
                             ELSE Returned(k, f)
          [] f.s = "getx" -> Returned(PyInt(x), f)

\* Variant: the result coerced to text before it is returned
ReturnCoercedToText(res) ==
    IF res.outcome = "returned" THEN [res EXCEPT !.value = PyStr(ToText(@))] ELSE res

\* `return namespace[function_name](**kwargs)`: the call's result as it is
ReturnOfCall(res) == res

\* call_tool(**kwargs) of compile_custom_tool(tool_config) (lines 214-225)
call_tool(tool_config, kwargs) ==
    LET code == tool_config.code IN
    IF code.syntax = "parse_error"
    THEN Raised("SyntaxError", <<"invalid syntax">>, PyNone)
    ELSE IF custom_tool_functions(code) = {}
    THEN Raised("ValueError", <<"Custom tool code must define at least one function.">>,
                PyNone)
    ELSE LET namespace == ExecSource(InitialNamespace(tool_config.params), code.body, 1)
             target == namespace[function_name(code)]
             res == IF target.t # "function"
                    THEN Raised("TypeError", <<"'NoneType' object is not callable">>, target)
                    ELSE ReturnOfCall(ApplyFunction(target, kwargs, namespace))
         IN  [res EXCEPT !.source_runs = 1]   \* exec(compiled_code, namespace), line 224

\* compile_custom_tool(tool_config): a StructuredTool around call_tool;
\* nothing of tool_config.code is read or run here (lines 227-232)
compile_custom_tool(tool_config) ==
    [kind |-> "custom", name |-> tool_config.name, cfg |-> tool_config, source_runs |-> 0]

----------------------------------------------------------------------------
(* create_utility_agent_tool / run_tool *)

\* utility_agent_tool.get("input_schema"): None, {} or a schema object
SchemaKinds == {"none", "empty", "object"}

Absent == "<absent>"
RemoteKeys == {"input", "query"}
RemoteKwargs == [RemoteKeys -> {Absent, "loans"}]

\* Outcomes of utility_agent_tool.run: an exception, a mapping with an
\* `output` entry, a mapping without one
RunOutcomes == { [ok |-> FALSE, has_output |-> FALSE, output |-> ""],
                 [ok |-> TRUE, has_output |-> TRUE, output |-> "found"],
                 [ok |-> TRUE, has_output |-> FALSE, output |-> ""] }

Mapping(kwargs) == [t |-> "mapping", m |-> kwargs, v |-> ""]
Scalar(v) == [t |-> "scalar", m |-> [k \in RemoteKeys |-> Absent], v |-> v]

\* tool_input.get("input")
GetInput(kwargs) == IF kwargs["input"] = Absent THEN "None" ELSE kwargs["input"]

\* create_utility_agent_tool(tool_name, params, api_client): the descriptor
\* fetched by get_tool decides the schema the tool exposes
create_utility_agent_tool(tool_name, params, input_schema) ==
    [kind |-> "remote", name |-> tool_name, params |-> params,
     input_schema |-> input_schema,
     args_schema |-> IF input_schema = "object" THEN "object" ELSE "implicit_input"]

\* create_rag_tool(config, api_client, workspace)
create_rag_tool(input_schema) ==
    create_utility_agent_tool("RAGQuery", "vectorIndexId", input_schema)

\* Variant: the keyword arguments are forwarded whatever the descriptor says
query_always_kwargs(tool, tool_input) == Mapping(tool_input)

\* query = tool_input, or tool_input.get("input") when input_schema is None
query_of(tool, tool_input) ==
    IF tool.input_schema = "none" THEN Scalar(GetInput(tool_input)) ELSE Mapping(tool_input)

\* run_tool(**tool_input) (lines 174-180)
run_tool(tool, tool_input, run) ==
    LET call == [input |-> query_of(tool, tool_input), config |-> tool.params]
    IN  IF ~run.ok
        THEN [Raised("ApiRequestFailure", <<"run failed">>, PyNone)
                 EXCEPT !.run_calls = <<call>>, !.run = run]
        ELSE [Returned(IF run.has_output THEN PyStr(run.output) ELSE PyNone, PyNone)
                 EXCEPT !.run_calls = <<call>>, !.run = run]

----------------------------------------------------------------------------
(* assemble_toolkit *)

\* Custom tool definitions a toolkit configuration can list
ToolkitCustomTools ==
    { [name |-> "A", code |-> [syntax |-> "ok",
          body |-> <<[op |-> "def", name |-> "f", fn |-> "add"]>>], params |-> NoParams],
      [name |-> "B", code |-> [syntax |-> "ok",
          body |-> <<[op |-> "def", name |-> "g", fn |-> "sub"]>>], params |-> NoParams],
      [name |-> "PythonInterpreter", code |-> [syntax |-> "parse_error", body |-> <<>>],
          params |-> NoParams],
      [name |-> "B", code |-> [syntax |-> "ok", body |-> <<>>], params |-> NoParams] }

ToolkitConfigs ==
    [rag_config : BOOLEAN, include_python : BOOLEAN, include_google_search : BOOLEAN,
     custom_tools : UNION { [1..k -> ToolkitCustomTools] : k \in 0..MaxCustom }]

\* Variant: the search tool appended before the interpreter tool
assemble_toolkit_search_first(cfg, rag_schema, search_schema, current_import) ==
    (IF cfg.rag_config THEN <<create_rag_tool(rag_schema)>> ELSE <<>>)
    \o (IF cfg.include_google_search
        THEN <<create_utility_agent_tool("GoogleSearch", "None", search_schema)>> ELSE <<>>)
    \o (IF cfg.include_python
        THEN <<create_python_interpreter_tool(current_import)>> ELSE <<>>)
    \o [i \in 1..Len(cfg.custom_tools) |-> compile_custom_tool(cfg.custom_tools[i])]

\* assemble_toolkit(...) (lines 247-261)
assemble_toolkit(cfg, rag_schema, search_schema, current_import) ==
    (IF cfg.rag_config THEN <<create_rag_tool(rag_schema)>> ELSE <<>>)
    \o (IF cfg.include_python
        THEN <<create_python_interpreter_tool(current_import)>> ELSE <<>>)
    \o (IF cfg.include_google_search
        THEN <<create_utility_agent_tool("GoogleSearch", "None", search_schema)>> ELSE <<>>)
    \o [i \in 1..Len(cfg.custom_tools) |-> compile_custom_tool(cfg.custom_tools[i])]

\* Code strings given to the interpreter tool of a toolkit: one that does not
\* parse, one that does not compile, a single raise, a single plt.show()
ToolkitCodes ==
    { c \in SandboxCodes :
        \/ c.syntax # "ok"
        \/ Len(c.body) = 1 /\ c.body[1].op \in {"raise", "show"} }

\* Keyword arguments given to the custom tools of a toolkit
ToolkitKwargs == { kw \in IntKwargs : kw["x"] <= 1 /\ kw["y"] <= 1 }

----------------------------------------------------------------------------
(* Initial state and the actions on the interpreter tool *)

----------------------------------------------------------------------------
(* Two _execute_agent_code calls of one tool running in two threads *)

Threads == {1, 2}

\* The StringIO objects the calls create
Buffer(t) == IF t = 1 THEN "StringIO#1" ELSE "StringIO#2"
Buffers == { Buffer(t) : t \in Threads }

\* Variant: one StringIO created once and used by every call
redirected_output_shared(t) == Buffer(1)

\* redirected_output = StringIO(""): a new, empty buffer for each call (line 93)
redirected_output(t) == Buffer(t)

ConcStmts == { Stmt("print", <<"hello">>, ""), Stmt("raise", <<"boom">>, "ValueError") }

ConcCodes ==
    { [syntax |-> "ok", body |-> b] :
        b \in UNION { [1..k -> ConcStmts] : k \in 0..MaxConcStmts } }
    \cup { [syntax |-> "parse_error", body |-> <<>>] }

\* The tool both threads call, created before any call
ConcTool == create_python_interpreter_tool(0)

NoConcResult == [outcome |-> "", text |-> <<>>, writers |-> {}]

\* The locals of a call and the position it has reached
NoCall ==
    [pc |-> "idle", code |-> [syntax |-> "ok", body |-> <<>>], old_stdout |-> "",
     redirected_output |-> "", i |-> 0, exc |-> NoExc, res |-> NoConcResult]

\* Nothing called yet; `original` is what sys.stdout was then, `contents` is
\* what has been written to each StringIO and by which thread
ConcInit(stdout0) ==
    [original |-> stdout0, overlapped |-> FALSE,
     call |-> [t \in Threads |-> NoCall],
     contents |-> [b \in Buffers |-> <<>>]]

\* StringIO.getvalue(): the written pieces joined
RECURSIVE getvalue(_)
getvalue(written) ==
    IF written = <<>> THEN <<>> ELSE Head(written).text \o getvalue(Tail(written))

NoInvoke == [op |-> "none"]

\* toolkit_cfg before assemble_toolkit has been called
Unbuilt == [built |-> FALSE]

\* custom before compile_custom_tool has been called
NoTool == [kind |-> "none"]

Init ==
    /\ sys_stdout \in HostChannels
    /\ builtins_import = 0
    /\ interp = <<>>
    /\ exec_last = NoExec
    /\ toolkit = <<>>
    /\ toolkit_cfg = Unbuilt
    /\ custom = NoTool
    /\ invoke_last = NoInvoke
    /\ conc = ConcInit(sys_stdout)
    /\ last_namespace = NoResult


\* tool = create_python_interpreter_tool(context, workspace)
CreateInterpreter ==
    /\ Len(interp) < MaxInterp
    /\ interp' = Append(interp, create_python_interpreter_tool(builtins_import))
    /\ UNCHANGED <<sys_stdout, builtins_import, exec_last, toolkit, toolkit_cfg, custom, invoke_last, conc, last_namespace>>

\* tool.func(code): one complete _execute_agent_code call, made while no other
\* call is in progress (the agent loop makes one tool call at a time)
Execute ==
    /\ exec_last = NoExec
    /\ \E i \in 1..Len(interp), code \in SandboxCodes :
      \E upload \in UploadOutcomesFor(code), read \in ReadOutcomesFor(code) :
        LET r == execute_agent_code(interp[i], code, upload, read, sys_stdout, builtins_import,
                                   last_namespace)
        IN  /\ sys_stdout' = r.stdout
            /\ builtins_import' = r.import
            /\ exec_last' = ExecRecord(i, code, upload, sys_stdout, builtins_import,
                                       last_namespace, r)
            /\ last_namespace' = r.fr.under
            /\ UNCHANGED <<interp, toolkit, toolkit_cfg, custom, invoke_last, conc>>

\* The caller takes the returned value (or handles the exception) and goes on
CallerProceeds ==
    /\ exec_last # NoExec \/ invoke_last # NoInvoke
    /\ exec_last' = NoExec
    /\ invoke_last' = NoInvoke
    /\ UNCHANGED <<sys_stdout, builtins_import, interp, toolkit, toolkit_cfg, custom, conc, last_namespace>>

NextSandbox == CreateInterpreter \/ Execute \/ CallerProceeds

SpecSandbox == Init /\ [][NextSandbox]_vars

----------------------------------------------------------------------------
(* Actions on a custom tool built directly *)

\* tool = compile_custom_tool(tool_config)
CompileCustomTool ==
    /\ custom = NoTool
    /\ \E tool_config \in CustomToolConfigs : custom' = compile_custom_tool(tool_config)
    /\ UNCHANGED <<sys_stdout, builtins_import, interp, exec_last, toolkit, toolkit_cfg,
                   invoke_last, conc, last_namespace>>

InvokeRecord(op, index, kwargs, res) ==
    [op |-> op, index |-> index, kwargs |-> kwargs, outcome |-> res.outcome,
     value |-> res.value, exc |-> res.exc, called |-> res.called,
     run_calls |-> res.run_calls, run |-> res.run, source_runs |-> res.source_runs]

\* tool.func(**kwargs): one complete call_tool call
InvokeCustom ==
    /\ custom # NoTool
    /\ invoke_last = NoInvoke
    /\ \E kwargs \in IntKwargs :
          invoke_last' = InvokeRecord("custom", 0, kwargs, call_tool(custom.cfg, kwargs))
    /\ UNCHANGED <<sys_stdout, builtins_import, interp, exec_last, toolkit, toolkit_cfg,
                   custom, conc, last_namespace>>

NextCustom == CompileCustomTool \/ InvokeCustom \/ CallerProceeds

SpecCustom == Init /\ [][NextCustom]_vars

----------------------------------------------------------------------------
(* Actions on an assembled toolkit *)

\* tools = assemble_toolkit(...): build_agent builds the list once
Assemble ==
    /\ toolkit_cfg = Unbuilt
    /\ \E cfg \in ToolkitConfigs,
          rag_schema \in SchemaKinds, search_schema \in SchemaKinds :
          /\ cfg.rag_config \/ rag_schema = "none"
          /\ cfg.include_google_search \/ search_schema = "none"
          /\ toolkit' = assemble_toolkit(cfg, rag_schema, search_schema, builtins_import)
          /\ toolkit_cfg' = [built |-> TRUE, cfg |-> cfg, rag_schema |-> rag_schema,
                             search_schema |-> search_schema,
                             current_import |-> builtins_import]
    /\ UNCHANGED <<sys_stdout, builtins_import, interp, exec_last, custom, invoke_last, conc, last_namespace>>

Idle == exec_last = NoExec /\ invoke_last = NoInvoke

\* tools[i].func(code) for the interpreter tool
InvokeToolkitInterpreter ==
    /\ Idle
    /\ \E i \in 1..Len(toolkit), code \in ToolkitCodes :
      \E upload \in UploadOutcomesFor(code), read \in ReadOutcomesFor(code) :
        /\ toolkit[i].kind = "python"
        /\ LET r == execute_agent_code(toolkit[i], code, upload, read, sys_stdout, builtins_import,
                                   last_namespace)
           IN  /\ sys_stdout' = r.stdout
               /\ builtins_import' = r.import
               /\ exec_last' = ExecRecord(i, code, upload, sys_stdout, builtins_import,
                                          last_namespace, r)
               /\ last_namespace' = r.fr.under
               /\ invoke_last' = [op |-> "python", index |-> i, outcome |-> r.res.outcome]
    /\ UNCHANGED <<interp, toolkit, toolkit_cfg, custom, conc>>

\* tools[i].func(**tool_input) for a utility agent tool
InvokeToolkitRemote ==
    /\ Idle
    /\ \E i \in 1..Len(toolkit), tool_input \in RemoteKwargs, run \in RunOutcomes :
        /\ toolkit[i].kind = "remote"
        /\ invoke_last' = InvokeRecord("remote", i, tool_input,
                                       run_tool(toolkit[i], tool_input, run))
    /\ UNCHANGED <<sys_stdout, builtins_import, interp, exec_last, toolkit, toolkit_cfg,
                   custom, conc, last_namespace>>

\* tools[i].func(**kwargs) for a custom tool
InvokeToolkitCustom ==
    /\ Idle
    /\ \E i \in 1..Len(toolkit), kwargs \in ToolkitKwargs :
        /\ toolkit[i].kind = "custom"
        /\ invoke_last' = InvokeRecord("custom", i, kwargs, call_tool(toolkit[i].cfg, kwargs))
    /\ UNCHANGED <<sys_stdout, builtins_import, interp, exec_last, toolkit, toolkit_cfg,
                   custom, conc, last_namespace>>

NextToolkit ==
    \/ Assemble
    \/ InvokeToolkitInterpreter
    \/ InvokeToolkitRemote
    \/ InvokeToolkitCustom
    \/ CallerProceeds

SpecToolkit == Init /\ [][NextToolkit]_vars

----------------------------------------------------------------------------
(* Two threads calling tool.func(code) without serialization; each clause   *)
(* of _execute_agent_code is one step                                       *)

InProgress(t) == conc.call[t].pc \notin {"idle", "done"}

\* lines 92-94: old_stdout = sys.stdout; redirected_output = StringIO("")
ConcSave(t) ==
    /\ conc.call[t].pc = "idle"
    /\ \E code \in ConcCodes :
          conc' = [conc EXCEPT
                     !.call[t] = [@ EXCEPT !.pc = "try", !.code = code,
                                           !.old_stdout = sys_stdout,
                                           !.redirected_output = redirected_output(t)],
                     !.overlapped = @ \/ \E u \in Threads \ {t} : InProgress(u)]
    /\ UNCHANGED <<sys_stdout, builtins_import, interp, exec_last, toolkit, toolkit_cfg,
                   custom, invoke_last, last_namespace>>

\* lines 96-100: parse and compile, then sys.stdout = redirected_output
ConcRedirect(t) ==
    LET c == conc.call[t] IN
    /\ c.pc = "try"
    /\ IF ParseCompile(c.code).raised
       THEN /\ conc' = [conc EXCEPT !.call[t].pc = "finally",
                                     !.call[t].exc = ParseCompile(c.code)]
            /\ UNCHANGED sys_stdout
       ELSE /\ conc' = [conc EXCEPT !.call[t].pc = "exec"]
            /\ sys_stdout' = c.redirected_output
    /\ UNCHANGED <<builtins_import, interp, exec_last, toolkit, toolkit_cfg,
                   custom, invoke_last, last_namespace>>

\* line 101: the next statement of exec(compiled_code, namespace);
\* statement 0 is the prepended init_imports()
ConcExecStep(t) ==
    LET c == conc.call[t] IN
    /\ c.pc = "exec"
    /\ c.i <= Len(c.code.body)
    /\ IF c.i = 0
       THEN /\ builtins_import' = init_imports(ConcTool, [import |-> builtins_import]).import
            /\ conc' = [conc EXCEPT !.call[t].i = 1]
       ELSE /\ UNCHANGED builtins_import
            /\ conc' =
                 IF c.code.body[c.i].op = "print"
                 THEN [conc EXCEPT
                         !.call[t].i = @ + 1,
                         !.contents =
                            IF sys_stdout \in Buffers
                            THEN [@ EXCEPT ![sys_stdout] =
                                    Append(@, [by |-> t,
                                               text |-> c.code.body[c.i].text \o <<NL>>])]
                            ELSE @]
                 ELSE [conc EXCEPT
                         !.call[t].pc = "finally",
                         !.call[t].exc = Exc(c.code.body[c.i].arg, c.code.body[c.i].text)]
    /\ UNCHANGED <<sys_stdout, interp, exec_last, toolkit, toolkit_cfg, custom, invoke_last, last_namespace>>

\* lines 102-105: exec has returned or raised; the except clause's return
\* value is computed and the finally clause restores sys.stdout
ConcFinally(t) ==
    LET c == conc.call[t] IN
    /\ c.pc = "finally" \/ (c.pc = "exec" /\ c.i > Len(c.code.body))
    /\ sys_stdout' = RestoreStdout(c.old_stdout, [exc |-> c.exc, stdout |-> sys_stdout])
    /\ conc' =
         IF ~c.exc.raised THEN [conc EXCEPT !.call[t].pc = "post"]
         ELSE [conc EXCEPT
                 !.call[t].pc = "done",
                 !.call[t].res =
                    IF CaughtByHandler(c.exc.cls)
                    THEN [outcome |-> "returned", text |-> ErrorPrefix \o StrExc(c.exc),
                          writers |-> {}]
                    ELSE [outcome |-> "raised", text |-> <<>>, writers |-> {}]]
    /\ UNCHANGED <<builtins_import, interp, exec_last, toolkit, toolkit_cfg,
                   custom, invoke_last, last_namespace>>

\* lines 107-117: value = redirected_output.getvalue() and the result chosen
ConcPost(t) ==
    LET c == conc.call[t]
        written == conc.contents[c.redirected_output]
    IN  /\ c.pc = "post"
        /\ \E upload \in UploadOutcomes :
              LET r == PostProcess([buf |-> getvalue(written), under |-> NoResult], upload)
              IN  conc' = [conc EXCEPT
                             !.call[t].pc = "done",
                             !.call[t].res =
                                [outcome |-> r.outcome, text |-> r.text,
                                 writers |-> { written[k].by : k \in 1..Len(written) }]]
        /\ UNCHANGED <<sys_stdout, builtins_import, interp, exec_last, toolkit, toolkit_cfg,
                       custom, invoke_last, last_namespace>>

NextConcurrent ==
    \E t \in Threads :
        ConcSave(t) \/ ConcRedirect(t) \/ ConcExecStep(t) \/ ConcFinally(t) \/ ConcPost(t)

SpecConcurrent == Init /\ [][NextConcurrent]_vars

----------------------------------------------------------------------------
(* Properties of _execute_agent_code *)

Executed == exec_last.op = "execute"

\* C1: after every execute, returning or raising, whether the code ran,
\* raised or failed to parse, sys.stdout is the object it was before the call.
C1_StdoutRestored ==
    Executed => sys_stdout = exec_last.stdout_before

\* C1 witness: a call whose code rebound sys.stdout itself and then raised,
\* made while sys.stdout was not the console, has finished.
C1_Witness ==
    /\ Executed
    /\ exec_last.syntax = "ok"
    /\ exec_last.stdout_at_exit = "devnull"
    /\ exec_last.code_exc.raised
    /\ exec_last.stdout_before = "hostlog"
    /\ sys_stdout = "hostlog"

\* C2: whenever parsing, compiling or running the code raises, execute
\* returns normally a string that starts with the error prefix and contains
\* the exception's text.
C2_EveryExceptionBecomesText ==
    (Executed /\ exec_last.code_exc.raised) =>
        /\ exec_last.outcome = "returned"
        /\ SubSeq(exec_last.text, 1, Len(ErrorPrefix)) = ErrorPrefix
        /\ Contains(exec_last.text, exec_last.code_exc.msg)

\* C7: execute raises only when the upload collaborator failed, and a failed
\* upload is always raised.
C7_RaisesOnlyOnUploadFailure ==
    Executed =>
        (exec_last.outcome = "raised" <=> exec_last.origin = "upload")

----------------------------------------------------------------------------
(* Properties of compile_custom_tool / call_tool *)

InvokedCustom == invoke_last.op = "custom" /\ custom # NoTool

\* The source is one function definition and nothing else
SingleFunctionSource(code) ==
    code.syntax = "ok" /\ Len(code.body) = 1 /\ code.body[1].op = "def"

\* Calling the source's function directly with the keyword arguments
DirectCall(tool_config, kwargs) ==
    ApplyFunction(PyFunc(1, tool_config.code.body[1].fn), kwargs,
                  InitialNamespace(tool_config.params))

HasFunction(code) == code.syntax = "ok" /\ custom_tool_functions(code) # {}

FirstDef(code) == Min({ i \in 1..Len(code.body) : code.body[i].op = "def" })

\* Positions of the statements that bind the first definition's name
Binders(code) ==
    { i \in 1..Len(code.body) : code.body[i].name = code.body[FirstDef(code)].name }

\* C9 as stated: invoke calls the function object created by the first
\* top-level definition, whatever later top-level statements do.
C9_CallsFirstDefinition ==
    (InvokedCustom /\ HasFunction(custom.cfg.code)) =>
        invoke_last.called =
            PyFunc(FirstDef(custom.cfg.code),
                   custom.cfg.code.body[FirstDef(custom.cfg.code)].fn)

\* C9 amended: invoke calls whatever the first definition's name is bound to
\* once the whole source has run: the function of the last definition of that
\* name, or a TypeError when the name was last bound to a non-callable;
\* definitions of other names never change the function called.
C9_CallsLastBindingOfFirstName ==
    (InvokedCustom /\ HasFunction(custom.cfg.code)) =>
        LET code == custom.cfg.code
            last == Max(Binders(code))
        IN  /\ code.body[last].op = "def" =>
                 invoke_last.called = PyFunc(last, code.body[last].fn)
            /\ code.body[last].op # "def" =>
                 invoke_last.outcome = "raised" /\ invoke_last.exc.cls = "TypeError"
            /\ Binders(code) = {FirstDef(code)} =>
                 invoke_last.called = PyFunc(FirstDef(code), code.body[FirstDef(code)].fn)

\* C9 witness: a source defining f and then g was invoked and f was called.
C9_Witness ==
    /\ InvokedCustom
    /\ custom.cfg.code.syntax = "ok"
    /\ Len(custom.cfg.code.body) = 2
    /\ custom.cfg.code.body[1] = [op |-> "def", name |-> "f", fn |-> "add"]
    /\ custom.cfg.code.body[2] = [op |-> "def", name |-> "g", fn |-> "sub"]
    /\ invoke_last.outcome = "returned"
    /\ invoke_last.called = PyFunc(1, "add")

----------------------------------------------------------------------------
(* Properties of assemble_toolkit and of the tools it returns *)

Built == toolkit_cfg # Unbuilt

B2N(b) == IF b THEN 1 ELSE 0

RemoveAt(seq, i) == [j \in 1..(Len(seq) - 1) |-> IF j < i THEN seq[j] ELSE seq[j + 1]]

Reassembled(cfg) ==
    assemble_toolkit(cfg, toolkit_cfg.rag_schema, toolkit_cfg.search_schema,
                     toolkit_cfg.current_import)

\* C3: the list holds the retrieval tool iff rag_config, then the interpreter
\* tool iff include_python, then the search tool iff include_google_search,
\* then one tool per custom_tools entry in that order; and the list for the
\* same configuration with one provider disabled is this list without that
\* provider's entry.
C3_FixedAssemblyOrder ==
    Built =>
        LET cfg == toolkit_cfg.cfg
            nR == B2N(cfg.rag_config)
            nP == B2N(cfg.include_python)
            nS == B2N(cfg.include_google_search)
        IN  /\ Len(toolkit) = nR + nP + nS + Len(cfg.custom_tools)
            /\ cfg.rag_config =>
                 /\ toolkit[1].kind = "remote" /\ toolkit[1].name = "RAGQuery"
                 /\ Reassembled([cfg EXCEPT !.rag_config = FALSE]) = RemoveAt(toolkit, 1)
            /\ cfg.include_python =>
                 /\ toolkit[nR + 1].kind = "python"
                 /\ Reassembled([cfg EXCEPT !.include_python = FALSE])
                      = RemoveAt(toolkit, nR + 1)
            /\ cfg.include_google_search =>
                 /\ toolkit[nR + nP + 1].kind = "remote"
                 /\ toolkit[nR + nP + 1].name = "GoogleSearch"
                 /\ Reassembled([cfg EXCEPT !.include_google_search = FALSE])
                      = RemoveAt(toolkit, nR + nP + 1)
            /\ \A j \in 1..Len(cfg.custom_tools) :
                 /\ toolkit[nR + nP + nS + j].kind = "custom"
                 /\ toolkit[nR + nP + nS + j].name = cfg.custom_tools[j].name
                 /\ toolkit[nR + nP + nS + j].cfg = cfg.custom_tools[j]
                 /\ Reassembled([cfg EXCEPT !.custom_tools = RemoveAt(@, j)])
                      = RemoveAt(toolkit, nR + nP + nS + j)

\* C3 witness: retrieval, interpreter and search enabled with custom tools
\* [A, B] gave the names in exactly that order.
C3_Witness ==
    /\ Built
    /\ Len(toolkit) = 5
    /\ [i \in 1..5 |-> toolkit[i].name]
         = <<"RAGQuery", "PythonInterpreter", "GoogleSearch", "A", "B">>

\* C4: no two tools of a returned list have the same name.
C4_UniqueToolNames ==
    \A i, j \in 1..Len(toolkit) : toolkit[i].name = toolkit[j].name => i = j

\* C5: no returned list holds a custom tool whose source does not parse or
\* defines no function.
C5_BadSourceFailsAtBuild ==
    \A i \in 1..Len(toolkit) :
        toolkit[i].kind = "custom" => HasFunction(toolkit[i].cfg.code)

\* C6: no call of a toolkit tool raises to its caller.
C6_InvokeNeverRaises ==
    invoke_last # NoInvoke => invoke_last.outcome # "raised"

InvokedRemote == invoke_last.op = "remote"

\* C10: a remote tool makes exactly one run call; with an input_schema in the
\* descriptor the payload is the keyword arguments unchanged; without one the
\* tool exposes the single `input` argument and the payload is kwargs["input"]
\* alone; the tool returns the `output` entry of the remote result.
C10_RemoteForwarding ==
    InvokedRemote =>
        LET tool == toolkit[invoke_last.index]
            run == invoke_last.run
        IN  /\ Len(invoke_last.run_calls) = 1
            /\ tool.input_schema # "none" =>
                 invoke_last.run_calls[1].input = Mapping(invoke_last.kwargs)
            /\ tool.input_schema = "none" =>
                 /\ tool.args_schema = "implicit_input"
                 /\ invoke_last.run_calls[1].input = Scalar(GetInput(invoke_last.kwargs))
            /\ (run.ok /\ run.has_output) =>
                 invoke_last.outcome = "returned" /\ invoke_last.value = PyStr(run.output)

\* C10 witness: a tool without input_schema was called with input and query
\* arguments, forwarded the input alone and returned the remote output.
C10_Witness ==
    /\ InvokedRemote
    /\ toolkit[invoke_last.index].input_schema = "none"
    /\ invoke_last.kwargs["input"] = "loans"
    /\ invoke_last.kwargs["query"] = "loans"
    /\ invoke_last.run_calls[1].input = Scalar("loans")
    /\ invoke_last.value = PyStr("found")

\* C11: when the remote run call fails, or its result has no `output`
\* entry, the call of the tool raises; it never returns normally.
C11_RemoteFailureRaises ==
    (InvokedRemote /\ (~invoke_last.run.ok \/ ~invoke_last.run.has_output)) =>
        invoke_last.outcome = "raised"

----------------------------------------------------------------------------
(* Properties of the sentinel line and the result selection *)

IsPrefix(p, seq) == Len(p) <= Len(seq) /\ \A i \in 1..Len(p) : seq[i] = p[i]

CountToken(seq, tok) == Cardinality({ i \in 1..Len(seq) : seq[i] = tok })

\* The capture buffer begins with the line printed by the call's first show
BufferBeginsWithShow ==
    /\ Executed
    /\ Len(exec_last.shows) >= 1
    /\ IsPrefix(Sentinel(exec_last.shows[1].name, exec_last.shows[1].payload),
                exec_last.value)

\* C12: when pyplot_show printed base64image:<id>:<payload> at the start of
\* the capture buffer, the name and the data handed to the upload are exactly
\* that <id> and that <payload>, also for a payload containing ':'.
C12_SentinelRoundTrip ==
    (BufferBeginsWithShow /\ exec_last.uploads # <<>>) =>
        /\ exec_last.uploads[1].name = <<exec_last.shows[1].name>>
        /\ exec_last.uploads[1].blob = exec_last.shows[1].payload

\* C13: code that calls show exactly once and does not raise, with an upload
\* that succeeds with a reference, gets a text with exactly one IMAGE( marker.
C13_OneShowOneImage ==
    (/\ Executed
     /\ Len(exec_last.shows) = 1
     /\ ~exec_last.code_exc.raised
     /\ exec_last.upload.ok /\ exec_last.upload.uri # "") =>
        CountToken(exec_last.text, "IMAGE(") = 1

ImageText(ref) ==
    <<"Result of executing generated Python code is an image:", NL, NL, "IMAGE(", ref, ")">>

\* C16: after a run that did not raise, the returned text is IMAGE(<ref>) of
\* the upload's reference when the buffer starts with the sentinel prefix and
\* the upload returned; else the rendering of `_` when it holds a result (its
\* image form when it has an image reference, its text otherwise); else the
\* buffer verbatim.
C16_ResultPriority ==
    (Executed /\ ~exec_last.code_exc.raised /\ exec_last.outcome = "returned") =>
        IF StartsWith(exec_last.value, "base64image")
        THEN exec_last.text = ImageText(exec_last.upload.uri)
        ELSE IF exec_last.under.set
             THEN exec_last.text = IF exec_last.under.image_url # ""
                                   THEN ImageText(exec_last.under.image_url)
                                   ELSE exec_last.under.output
             ELSE exec_last.text = exec_last.value

\* C17: no file saved by pyplot_show during a call still exists when the call
\* has returned or raised.
C17_TempFilesRemoved ==
    Executed => \A k \in 1..Len(exec_last.files) : ~exec_last.files[k].exists

----------------------------------------------------------------------------
(* Properties of the import hook *)

\* C18 as stated: the first call installs the hook, so after any call
\* builtins.__import__ is a patched_import.
C18_EveryExecuteInstalls ==
    Executed => builtins_import >= 1

\* C18: a call whose code parses and compiles leaves builtins.__import__ bound
\* to the patched_import of the tool that ran, delegating to that tool's
\* original_import, however many calls came before; a call whose code does
\* not parse or compile leaves builtins.__import__ as it found it.
C18_HookIdempotent ==
    Executed =>
        IF exec_last.syntax = "ok"
        THEN builtins_import = interp[exec_last.tool].original_import + 1
        ELSE builtins_import = exec_last.import_before

\* a further call of a tool whose hook was already installed
C18_Witness ==
    /\ Executed
    /\ exec_last.syntax = "ok"
    /\ exec_last.import_before = interp[exec_last.tool].original_import + 1
    /\ builtins_import = exec_last.import_before

\* C20: every tool captured the interpreter's own import function as its
\* original_import, and the installed hook is at most one patched_import deep.
C20_ChainDepthOne ==
    /\ builtins_import <= 1
    /\ \A i \in 1..Len(interp) : interp[i].original_import = 0

----------------------------------------------------------------------------
(* Properties of the custom tool's source and static parameters *)

\* C15: the source of a custom tool is run once when the tool is built and
\* is not run again by any call of the tool.
C15_SourceRunsOnceAtBuild ==
    /\ custom # NoTool => custom.source_runs = 1
    /\ InvokedCustom => invoke_last.source_runs = 0

\* C19: the called function sees the keyword arguments' values for x and y,
\* also when the static parameters bind x; a static parameter k that no
\* keyword argument carries is read by the function as a global.
C19_KwargsHideStaticParams ==
    (InvokedCustom /\ custom.cfg.params.set /\ invoke_last.outcome = "returned") =>
        LET x == invoke_last.kwargs["x"]
            y == invoke_last.kwargs["y"]
            fn == invoke_last.called.s
        IN  /\ fn = "getx" => invoke_last.value = PyInt(x)
            /\ fn = "add" => invoke_last.value = PyInt(x + y)
            /\ fn = "sub" => invoke_last.value = PyInt(x - y)
            /\ fn = "div" => invoke_last.value = PyInt(x \div y)
            /\ fn = "getk" => invoke_last.value = custom.cfg.params.k

\* C19 witness: static parameters {k: 7, x: 9}, `def f(x, y): return x`
\* called with x=2, y=3 returned 2.
C19_Witness ==
    /\ InvokedCustom
    /\ custom.cfg.params.x = PyInt(9)
    /\ invoke_last.called.s = "getx"
    /\ invoke_last.kwargs["x"] = 2
    /\ invoke_last.value = PyInt(2)

----------------------------------------------------------------------------
(* Properties of two calls running side by side *)

BothDone == \A t \in Threads : conc.call[t].pc = "done"

\* C14: with both calls finished, sys.stdout differs from the original
\* channel only if the calls overlapped, and then it is one call's capture
\* buffer; and a call's result holds text written by the other call only if
\* the calls overlapped. Calls that do not overlap leave neither damage; the
\* witness is an interleaving of overlapping calls that leaves both.
C14_OverlapUnsafe ==
    BothDone =>
        /\ sys_stdout # conc.original => (conc.overlapped /\ sys_stdout \in Buffers)
        /\ \A t \in Threads :
              conc.call[t].res.writers \ {t} # {} => conc.overlapped

\* both calls have finished, sys.stdout is still the first call's StringIO
\* and the second call's captured output was written by the first
C14_Witness ==
    /\ BothDone
    /\ conc.overlapped
    /\ sys_stdout = Buffer(1)
    /\ 1 \in conc.call[2].res.writers

----------------------------------------------------------------------------
(* Properties of the namespace and of the captured output of a failed run *)

\* C21: the `_` binding a call ends with was made by that call's own code,
\* never left by an earlier call; so a call whose code binds no `_`, does not
\* raise and does not start its output with the sentinel prefix returns the
\* captured buffer verbatim, whatever an earlier call bound.
C21_FreshNamespace ==
    Executed =>
        /\ exec_last.under.set => exec_last.bound
        /\ (/\ ~exec_last.bound
            /\ ~exec_last.code_exc.raised
            /\ ~StartsWith(exec_last.value, "base64image")) =>
               /\ exec_last.outcome = "returned"
               /\ exec_last.text = exec_last.value

\* the call before bound `_` to a result with an image reference; this call
\* printed, bound nothing, and returned what it printed
C21_Witness ==
    /\ Executed
    /\ exec_last.namespace_before = MkResult(<<"answer">>, "http://img")
    /\ ~exec_last.bound
    /\ exec_last.value = <<"hello", NL>>
    /\ exec_last.text = <<"hello", NL>>

\* C22: when the code raises after having written to the capture buffer, the
\* call returns exactly the error prefix followed by the exception's text;
\* the buffer, an emitted sentinel line included, is dropped and no upload
\* is made.
C22_FailedRunDiscardsOutput ==
    (Executed /\ exec_last.code_exc.raised /\ exec_last.value # <<>>) =>
        /\ exec_last.outcome = "returned"
        /\ exec_last.text = ErrorPrefix \o StrExc(exec_last.code_exc)
        /\ exec_last.uploads = <<>>

====
